---- MODULE Spec2Model ----
(***************************************************************************)
(* Model of express-mssql-pooling: the connection-pool manager of          *)
(* src/services/database.js and the streaming controller of                *)
(* src/controllers/apiController.js.                                       *)
(*                                                                         *)
(* Scheduling: Node's event loop.  One action is one synchronous run of a  *)
(* function between two awaits.  A settled promise resumes its awaiters as *)
(* microtasks, which run to completion before the next I/O event: an       *)
(* operation whose handle has settled is "ready", and while any operation  *)
(* is ready only Resume steps are taken.                                   *)
(***************************************************************************)
EXTENDS Integers, Sequences, FiniteSets, TLC

\* ------------------------------------------------------------------ bounds
NumOps == 3
MaxInits == NumOps
NumResets == 1
NumShutdownCalls == 2
MaxRows == 2
MaxErrors == 2

Ops == 1..NumOps
Inits == 1..MaxInits
Resets == 1..NumResets
ShutdownCalls == 1..NumShutdownCalls

\* ------------------------------------------------------- database.js: data
\* Mutant: the list of connection error codes lacks the timeout codes.
M_CONNECTION_ERROR_CODES_Short == {"ESOCKET", "ECONNRESET"}

\* database.js:163
CONNECTION_ERROR_CODES == {"ESOCKET", "ECONNRESET", "ETIMEDOUT", "EHOSTUNREACH"}

\* database.js:84, the codes the pool's error listener treats as fatal
FATAL_POOL_EVENT_CODES == {"ESOCKET", "ECONNRESET"}

\* Error codes the driver may reject pool.connect() with (one fatal for
\* executeQuery, one not), a request with, and emit on the pool.
ConnectErrCodes == {"ESOCKET", "ELOGIN"}
QueryErrCodes == {"ESOCKET", "EREQUEST"}
PoolEventCodes == {"ECONNRESET", "EOTHER"}

\* Errors raised by database.js itself; they carry no code property.
ERR_SHUTDOWN == "Cannot get connection pool during shutdown"
ERR_CONFIG == "Missing required environment variables"
ERR_UNAVAILABLE == "Connection pool is not available. Please try again."

NoErr == "none"

VARIABLES
    isShuttingDown,  \* database.js:4
    pool,            \* database.js:5, 0 is null, i > 0 is the Pool built by initialization i
    poolConnect,     \* database.js:6, 0 is null, i > 0 is the promise of initialization i
    envOk,           \* process.env holds DB_USER, DB_PASSWORD, DB_HOST, DB_NAME
    inits,           \* the initializations started so far (promise and Pool object)
    nInits,          \* how many initializations were started
    ops,             \* callers of getConnectionPool (through executeQuery or directly)
    resets,          \* runs of the pool "error" listener
    shuts            \* calls of gracefulShutdown

\* One run of streamRecords (apiController.js:330-472).
VARIABLES
    handler,          \* position of streamRecords: "idle", "streaming", "failed"
    streamingState,   \* apiController.js:337-342
    requestCompleted, \* apiController.js:62
    queryTimeout,     \* apiController.js:63, the timer: "none", "armed", "cleared", "fired"
    request,          \* the driver's streaming request and what it has emitted
    reqClosed,        \* the "close" event of req was delivered
    res,              \* the HTTP response
    nextCalls,        \* calls of next(err)
    peer              \* a second run of streamRecords in flight: its closure and
                      \* its response, while the listeners of this one run

poolVars == <<isShuttingDown, pool, poolConnect, envOk, inits, nInits, ops, resets,
              shuts>>
streamVars == <<handler, streamingState, requestCompleted, queryTimeout, request,
                reqClosed, res, nextCalls, peer>>

\* The process of server.js.
VARIABLES
    httpServer,          \* server.js:32, "created", "listening", "closing", "closed"
    serverShuttingDown,  \* server.js:120, isShuttingDown of server.js
    forceExitTimer,      \* server.js:121, "none", "armed", "cleared", "fired"
    startup,             \* server.js:39-51, the startup block: "init", "done"
    awaitedShutdown,     \* the gracefulDatabaseShutdown call the close callback awaits, or 0
    exit                 \* process.exit: its code and the path that called it

serverVars == <<httpServer, serverShuttingDown, forceExitTimer, startup,
                awaitedShutdown, exit>>

\* One error on its way from the place that raised it to the client.
VARIABLES
    errorPath         \* the error thrown, what executeQuery and errorHandler.js made of it

errorVars == <<errorPath>>
vars == <<poolVars, streamVars, serverVars, errorVars>>

NoInit == [st |-> "none", built |-> FALSE, closeCalls |-> 0, err |-> NoErr]
IdleOp == [pc |-> "idle", h |-> 0, res |-> 0, err |-> NoErr]
\* An operation that has ended keeps only its outcome.
DoneOp(e) == [IdleOp EXCEPT !.pc = "done", !.err = e]
IdleReset == [pc |-> "idle"]
IdleShut == [pc |-> "idle", cp |-> 0, skipped |-> FALSE]

\* apiController.js:337-342
InitialStreamingState ==
    [isFirstRow |-> TRUE, jsonStructureStarted |-> FALSE,
     recordsetStarted |-> FALSE, dataStarted |-> FALSE]
\* rows counts the "row" events emitted; total is the number of "row" events
\* of the whole result where the result fixes it (FOR JSON PATH), else 0.
IdleRequest ==
    [phase |-> "idle", rows |-> 0, errors |-> 0, cancelCalls |-> 0, total |-> 0]
\* body is what the response accepted, lateWrites counts the write calls made
\* after end, endCalls the calls of end.
FreshResponse ==
    [headersSent |-> FALSE, writableEnded |-> FALSE, status |-> "none", body |-> <<>>,
     endCalls |-> 0, lateWrites |-> 0]

\* What one call of streamRecords owns: the variables of its closure
\* (apiController.js:62-63, 337-342), its driver request, its req and res.
NewSession ==
    [handler |-> "idle", streamingState |-> InitialStreamingState,
     requestCompleted |-> FALSE, queryTimeout |-> "none", request |-> IdleRequest,
     reqClosed |-> FALSE, res |-> FreshResponse, nextCalls |-> 0]

NotExited == [code |-> "none", by |-> "none"]

\* An error object is its code and its message; an absent code or message is
\* the empty string, which takes the same branches.
NoError == [code |-> "", message |-> ""]
NoDatabaseError ==
    [name |-> "none", message |-> "", originalError |-> NoError, statusCode |-> 0]
\* stage: "idle", "thrown", "caught" by executeQuery, "wrapped" in a
\* DatabaseError or "forwarded" as it is, then "answered" by the error
\* middleware or "delegated" by it to the next handler; dbError is the error
\* given to next, response the response it arrives with, delegated whether the
\* middleware called next(err).
NoErrorPath ==
    [stage |-> "idle", thrown |-> NoError, reset |-> FALSE,
     dbError |-> NoDatabaseError, response |-> FreshResponse, delegated |-> FALSE]

Init ==
    /\ isShuttingDown = FALSE
    /\ pool = 0
    /\ poolConnect = 0
    /\ envOk \in BOOLEAN
    /\ inits = [i \in Inits |-> NoInit]
    /\ nInits = 0
    /\ ops = [o \in Ops |-> IdleOp]
    /\ resets = [r \in Resets |-> IdleReset]
    /\ shuts = [s \in ShutdownCalls |-> IdleShut]
    /\ handler = "idle"
    /\ streamingState = InitialStreamingState
    /\ requestCompleted = FALSE
    /\ queryTimeout = "none"
    /\ request = IdleRequest
    /\ reqClosed = FALSE
    /\ res = FreshResponse
    /\ nextCalls = 0
    /\ peer = NewSession
    /\ httpServer = "created"
    /\ serverShuttingDown = FALSE
    /\ forceExitTimer = "none"
    /\ startup = "init"
    /\ awaitedShutdown = 0
    /\ exit = NotExited
    /\ errorPath = NoErrorPath

\* No continuation is queued as a microtask.
NoMicrotasks == \A o \in Ops : ops[o].pc # "ready"

Settled(i) == inits[i].st \in {"resolved", "rejected"}

\* pool.close() is invoked on Pool q.
CloseInvoked(q) == [inits EXCEPT ![q].closeCalls = @ + 1]

\* Mutant: the shutdown gate is missing.
M_ShutdownGate_Off == FALSE

\* database.js:59, the shutdown gate of getConnectionPool
ShutdownGate == isShuttingDown

\* Mutant: every call starts an initialization (no promise caching).
M_NeedsInit_Always == TRUE

\* database.js:63, whether getConnectionPool starts an initialization
NeedsInit == poolConnect = 0

\* database.js:65-102: the value the assignment at line 65 leaves in
\* poolConnect when the initialization i failed before its first await
\* (validateEnvironment threw): the catch block has already run, and the
\* assignment then stores the rejected promise.
HandleAfterSyncFailure(i) == i

\* database.js:107-111: what getConnectionPool returns after the await
PoolAfterAwait == pool

\* Mutant: getConnectionPool returns the pool variable unchecked.
M_ValidatesPool_Off == FALSE

\* database.js:107: the pool variable is tested before it is returned.
ValidatesPool == TRUE

\* database.js:185, whether executeQuery resets the pool for an error
ResetsOn(e) == e \in CONNECTION_ERROR_CODES

\* Mutant: the pool's listener resets for no code.
M_ListenerResetsOn_Never(code) == FALSE

\* database.js:84, whether the pool's error listener resets the pool
ListenerResetsOn(code) == code \in FATAL_POOL_EVENT_CODES

\* Mutant: gracefulShutdown does not test the flag.
M_ShutdownInProgress_Off == FALSE

\* database.js:277, the guard of gracefulShutdown
ShutdownInProgress == isShuttingDown

\* ------------------------------------------------ database.js: operations

\* An operation ends with error e.  Called through executeQuery
\* (database.js:177-191; wrapped) a fatal code first runs resetConnectionPool
\* -> closeConnectionPool (database.js:137-151) up to its await of
\* pool.close(); with no pool the finally block clears the handle at once.
\* Whether the caller of getConnectionPool is wrapped in executeQuery
\* (initial_test, database.js:222) or not (streamRecords,
\* apiController.js:333) is read nowhere before the operation fails, so it
\* is drawn at the failure.
Fail(o, e, wrapped) ==
    IF wrapped /\ ResetsOn(e)
    THEN IF pool # 0
         THEN /\ inits' = CloseInvoked(pool)
              /\ ops' = [ops EXCEPT ![o] = [IdleOp EXCEPT !.pc = "closing", !.err = e]]
              /\ UNCHANGED <<pool, poolConnect>>
         ELSE /\ poolConnect' = 0
              /\ ops' = [ops EXCEPT ![o] = DoneOp(e)]
              /\ UNCHANGED <<pool, inits>>
    ELSE /\ ops' = [ops EXCEPT ![o] = DoneOp(e)]
         /\ UNCHANGED <<pool, poolConnect, inits>>

\* The record of a new initialization.
NewInit(st, built, err) ==
    [st |-> st, built |-> built, closeCalls |-> 0, err |-> err]

\* getConnectionPool, database.js:58-104, up to "await poolConnect", called
\* by operation o.
GetConnectionPool(o) ==
    /\ NoMicrotasks
    /\ ops[o].pc = "idle"
    /\ \A o2 \in Ops : o2 < o => ops[o2].pc # "idle"
    /\ IF ShutdownGate
       THEN /\ ops' = [ops EXCEPT ![o] = DoneOp(ERR_SHUTDOWN)]
            /\ UNCHANGED <<pool, poolConnect, inits, nInits>>
       ELSE IF NeedsInit
       THEN /\ nInits < MaxInits
            /\ nInits' = nInits + 1
            /\ IF envOk
               THEN \* new ConnectionPool, pool.on("error"), pool.connect()
                    /\ inits' = [inits EXCEPT ![nInits + 1] = NewInit("pending", TRUE, NoErr)]
                    /\ pool' = nInits + 1
                    /\ poolConnect' = nInits + 1
                    /\ ops' = [ops EXCEPT ![o] = [IdleOp EXCEPT !.pc = "await", !.h = nInits + 1]]
               ELSE \* validateEnvironment throws; catch: pool = null, poolConnect = null
                    /\ inits' = [inits EXCEPT ![nInits + 1] = NewInit("rejected", FALSE, ERR_CONFIG)]
                    /\ pool' = 0
                    /\ poolConnect' = HandleAfterSyncFailure(nInits + 1)
                    /\ ops' = [ops EXCEPT ![o] = [IdleOp EXCEPT !.pc = "ready", !.h = nInits + 1]]
       ELSE /\ ops' = [ops EXCEPT ![o] =
                         [IdleOp EXCEPT !.pc = IF Settled(poolConnect) THEN "ready" ELSE "await",
                                        !.h = poolConnect]]
            /\ UNCHANGED <<pool, poolConnect, inits, nInits>>
    /\ UNCHANGED streamVars
    /\ UNCHANGED errorVars
    /\ UNCHANGED serverVars
    /\ UNCHANGED <<isShuttingDown, envOk, resets, shuts>>

\* The promise of initialization i settles, database.js:90-101: connect()
\* resolved ("ok": return pool) or rejected with a code (catch: pool = null,
\* poolConnect = null, rethrow).  Its awaiters become ready.
InitSettles(i, outcome) ==
    /\ NoMicrotasks
    /\ inits[i].st = "pending"
    /\ ops' = [o \in Ops |->
                 IF ops[o].pc = "await" /\ ops[o].h = i
                 THEN [ops[o] EXCEPT !.pc = "ready"] ELSE ops[o]]
    /\ IF outcome = "ok"
       THEN /\ inits' = [inits EXCEPT ![i].st = "resolved"]
            /\ UNCHANGED <<pool, poolConnect>>
       ELSE /\ inits' = [inits EXCEPT ![i].st = "rejected", ![i].err = outcome]
            /\ pool' = 0
            /\ poolConnect' = 0
    /\ UNCHANGED streamVars
    /\ UNCHANGED errorVars
    /\ UNCHANGED serverVars
    /\ UNCHANGED <<isShuttingDown, envOk, nInits, resets, shuts>>

\* getConnectionPool after "await poolConnect", database.js:104-111: the
\* rejection of the awaited promise is thrown; otherwise the pool variable is
\* read again.
Resume(o, wrapped) ==
    /\ ops[o].pc = "ready"
    /\ IF inits[ops[o].h].st = "rejected"
       THEN Fail(o, inits[ops[o].h].err, wrapped)
       ELSE IF ValidatesPool /\ PoolAfterAwait = 0
       THEN Fail(o, ERR_UNAVAILABLE, wrapped)
       ELSE /\ ops' = [ops EXCEPT ![o] = [IdleOp EXCEPT !.pc = "query", !.res = PoolAfterAwait]]
            /\ UNCHANGED <<pool, poolConnect, inits>>
    /\ UNCHANGED streamVars
    /\ UNCHANGED errorVars
    /\ UNCHANGED serverVars
    /\ UNCHANGED <<isShuttingDown, envOk, nInits, resets, shuts>>

\* The query of operation o on the pool it was given settles.
QuerySettles(o, outcome, wrapped) ==
    /\ NoMicrotasks
    /\ ops[o].pc = "query"
    /\ IF outcome = "ok"
       THEN /\ ops' = [ops EXCEPT ![o] = DoneOp(NoErr)]
            /\ UNCHANGED <<pool, poolConnect, inits>>
       ELSE Fail(o, outcome, wrapped)
    /\ UNCHANGED streamVars
    /\ UNCHANGED errorVars
    /\ UNCHANGED serverVars
    /\ UNCHANGED <<isShuttingDown, envOk, nInits, resets, shuts>>

\* Mutant: a failed close replaces the error that executeQuery rethrows.
M_Rethrown_CloseError(original, closeOk) == IF closeOk THEN original ELSE "ECLOSE"

\* database.js:146-148 and 191: closeConnectionPool swallows the error of
\* close(), and executeQuery throws the err it caught.
Rethrown(original, closeOk) == original

\* closeConnectionPool after "await pool.close()", database.js:141-150,
\* reached from executeQuery: on success pool = null; in both cases the
\* finally block clears poolConnect.
CloseConnectionPoolSettles(o, closeOk) ==
    /\ NoMicrotasks
    /\ ops[o].pc = "closing"
    /\ pool' = IF closeOk THEN 0 ELSE pool
    /\ poolConnect' = 0
    /\ ops' = [ops EXCEPT ![o] = DoneOp(Rethrown(ops[o].err, closeOk))]
    /\ UNCHANGED streamVars
    /\ UNCHANGED errorVars
    /\ UNCHANGED serverVars
    /\ UNCHANGED <<isShuttingDown, envOk, inits, nInits, resets, shuts>>

\* The "error" listener of Pool p, database.js:78-88, and closeAndResetPool,
\* database.js:119-131, up to its await of pool.close().
PoolErrorEvent(r, p, code) ==
    /\ NoMicrotasks
    /\ resets[r].pc = "idle"
    /\ \A r2 \in Resets : r2 < r => resets[r2].pc # "idle"
    /\ inits[p].st = "resolved"
    /\ IF ListenerResetsOn(code)
       THEN IF pool # 0
            THEN /\ inits' = CloseInvoked(pool)
                 /\ resets' = [resets EXCEPT ![r] = [pc |-> "closing"]]
                 /\ UNCHANGED <<pool, poolConnect>>
            ELSE /\ pool' = 0
                 /\ poolConnect' = 0
                 /\ resets' = [resets EXCEPT ![r] = [pc |-> "done"]]
                 /\ UNCHANGED inits
       ELSE /\ resets' = [resets EXCEPT ![r] = [pc |-> "done"]]
            /\ UNCHANGED <<pool, poolConnect, inits>>
    /\ UNCHANGED streamVars
    /\ UNCHANGED errorVars
    /\ UNCHANGED serverVars
    /\ UNCHANGED <<isShuttingDown, envOk, nInits, ops, shuts>>

\* closeAndResetPool after "await pool.close()", database.js:124-130: a
\* failed close is logged; both references are cleared.
CloseAndResetSettles(r) ==
    /\ NoMicrotasks
    /\ resets[r].pc = "closing"
    /\ pool' = 0
    /\ poolConnect' = 0
    /\ resets' = [resets EXCEPT ![r].pc = "done"]
    /\ UNCHANGED streamVars
    /\ UNCHANGED errorVars
    /\ UNCHANGED serverVars
    /\ UNCHANGED <<isShuttingDown, envOk, inits, nInits, ops, shuts>>

\* gracefulShutdown, database.js:276-296, up to the await of the race.
GracefulShutdownCall(s) ==
    /\ NoMicrotasks
    /\ shuts[s].pc = "idle"
    /\ \A s2 \in ShutdownCalls : s2 < s => shuts[s2].pc # "idle"
    /\ IF ShutdownInProgress
       THEN /\ shuts' = [shuts EXCEPT ![s] = [pc |-> "done", cp |-> 0, skipped |-> TRUE]]
            /\ UNCHANGED <<isShuttingDown, pool, poolConnect, inits>>
       ELSE /\ isShuttingDown' = TRUE
            /\ IF pool # 0
               THEN /\ inits' = CloseInvoked(pool)
                    /\ shuts' = [shuts EXCEPT ![s] = [pc |-> "race", cp |-> pool, skipped |-> FALSE]]
                    /\ UNCHANGED <<pool, poolConnect>>
               ELSE /\ poolConnect' = 0
                    /\ shuts' = [shuts EXCEPT ![s] = [pc |-> "done", cp |-> 0, skipped |-> FALSE]]
                    /\ UNCHANGED <<pool, inits>>
    /\ UNCHANGED streamVars
    /\ UNCHANGED errorVars
    /\ UNCHANGED <<envOk, nInits, ops, resets>>

\* A call of gracefulShutdown of database.js on its own.
GracefulShutdown(s) ==
    /\ GracefulShutdownCall(s)
    /\ UNCHANGED serverVars

\* Mutant: no drain timer takes part in the race.
M_DrainOutcomes_NoTimer == {"closed", "closeFailed"}

\* database.js:287-296, what can settle Promise.race([closePromise,
\* timeoutPromise]) first: close() resolves, the drain timer resolves, or
\* close() rejects.
DrainOutcomes == {"closed", "timeout", "closeFailed"}

\* gracefulShutdown after the race, database.js:296-305: close() resolved
\* or the drain timer fired first (pool = null), or close() rejected first
\* (catch); the finally block clears poolConnect.
ShutdownRaceSettles(s, outcome) ==
    /\ NoMicrotasks
    /\ shuts[s].pc = "race"
    /\ outcome \in DrainOutcomes
    /\ pool' = IF outcome = "closeFailed" THEN pool ELSE 0
    /\ poolConnect' = 0
    /\ shuts' = [shuts EXCEPT ![s].pc = "done"]
    /\ UNCHANGED streamVars
    /\ UNCHANGED errorVars
    /\ UNCHANGED serverVars
    /\ UNCHANGED <<isShuttingDown, envOk, inits, nInits, ops, resets>>

\* The operator completes the environment (validateEnvironment,
\* database.js:13-21, reads process.env at each initialization).
FixConfig ==
    /\ NoMicrotasks
    /\ ~envOk
    /\ envOk' = TRUE
    /\ UNCHANGED streamVars
    /\ UNCHANGED errorVars
    /\ UNCHANGED serverVars
    /\ UNCHANGED <<isShuttingDown, pool, poolConnect, inits, nInits, ops, resets,
                   shuts>>

\* ------------------------------------------------------------ errorHandler.js
\* String.prototype.toUpperCase, one character
UpperChar(c) ==
    CASE c = "a" -> "A"
      [] c = "b" -> "B"
      [] c = "c" -> "C"
      [] c = "d" -> "D"
      [] c = "e" -> "E"
      [] c = "f" -> "F"
      [] c = "g" -> "G"
      [] c = "h" -> "H"
      [] c = "i" -> "I"
      [] c = "j" -> "J"
      [] c = "k" -> "K"
      [] c = "l" -> "L"
      [] c = "m" -> "M"
      [] c = "n" -> "N"
      [] c = "o" -> "O"
      [] c = "p" -> "P"
      [] c = "q" -> "Q"
      [] c = "r" -> "R"
      [] c = "s" -> "S"
      [] c = "t" -> "T"
      [] c = "u" -> "U"
      [] c = "v" -> "V"
      [] c = "w" -> "W"
      [] c = "x" -> "X"
      [] c = "y" -> "Y"
      [] c = "z" -> "Z"
      [] OTHER -> c

\* String.prototype.toLowerCase, one character
LowerChar(c) ==
    CASE c = "A" -> "a"
      [] c = "B" -> "b"
      [] c = "C" -> "c"
      [] c = "D" -> "d"
      [] c = "E" -> "e"
      [] c = "F" -> "f"
      [] c = "G" -> "g"
      [] c = "H" -> "h"
      [] c = "I" -> "i"
      [] c = "J" -> "j"
      [] c = "K" -> "k"
      [] c = "L" -> "l"
      [] c = "M" -> "m"
      [] c = "N" -> "n"
      [] c = "O" -> "o"
      [] c = "P" -> "p"
      [] c = "Q" -> "q"
      [] c = "R" -> "r"
      [] c = "S" -> "s"
      [] c = "T" -> "t"
      [] c = "U" -> "u"
      [] c = "V" -> "v"
      [] c = "W" -> "w"
      [] c = "X" -> "x"
      [] c = "Y" -> "y"
      [] c = "Z" -> "z"
      [] OTHER -> c

RECURSIVE ToUpperCase(_)
ToUpperCase(str) ==
    IF str = "" THEN ""
    ELSE UpperChar(SubSeq(str, 1, 1)) \o ToUpperCase(SubSeq(str, 2, Len(str)))

RECURSIVE ToLowerCase(_)
ToLowerCase(str) ==
    IF str = "" THEN ""
    ELSE LowerChar(SubSeq(str, 1, 1)) \o ToLowerCase(SubSeq(str, 2, Len(str)))

\* String.prototype.includes
Includes(str, searchString) ==
    \E i \in 1..(Len(str) - Len(searchString) + 1) :
        SubSeq(str, i, i + Len(searchString) - 1) = searchString

\* Mutant: the classifier looks at the code only.
M_CategorizeError_CodeOnly(error) ==
    IF ToUpperCase(error.code) \in {"ECONNREFUSED", "ENOTFOUND", "ESOCKET"} THEN 503
    ELSE IF ToUpperCase(error.code) \in {"ETIMEOUT", "ETIMEDOUT"} THEN 504
    ELSE 500

\* DatabaseError.categorizeError (errorHandler.js:15-33)
CategorizeError(error) ==
    LET errorCode == ToUpperCase(error.code)
        errorMessage == ToLowerCase(error.message)
    IN  IF \/ errorCode = "ECONNREFUSED" \/ errorCode = "ENOTFOUND" \/ errorCode = "ESOCKET"
           \/ Includes(errorMessage, "connection") \/ Includes(errorMessage, "pool")
        THEN 503
        ELSE IF \/ errorCode = "ETIMEOUT" \/ errorCode = "ETIMEDOUT"
                \/ Includes(errorMessage, "timeout")
        THEN 504
        ELSE 500

\* DatabaseError.getErrorCode (errorHandler.js:35-41)
GetErrorCode(statusCode) ==
    CASE statusCode = 503 -> "DATABASE_UNAVAILABLE"
      [] statusCode = 504 -> "DATABASE_TIMEOUT"
      [] OTHER -> "DATABASE_ERROR"

\* DatabaseError.getUserMessage (errorHandler.js:43-49)
GetUserMessage(statusCode) ==
    CASE statusCode = 503 -> "Database service is temporarily unavailable"
      [] statusCode = 504 -> "Database request timed out"
      [] OTHER -> "An error occurred while processing your request"

\* new DatabaseError(originalError, operation) (errorHandler.js:7-13)
DatabaseError(originalError) ==
    [name |-> "DatabaseError", message |-> originalError.message,
     originalError |-> originalError, statusCode |-> CategorizeError(originalError)]

\* Mutant: the body always reports status 500.
M_ErrorBody_Status500(errorCode, message, statusCode) ==
    <<"{", "success:false", ",",
      "error:{code:" \o errorCode \o ",message:" \o message \o ",status:500}",
      "}">>

\* JSON.stringify of the body that errorMiddleware sends
\* (errorHandler.js:85-92), as tokens; the error object is one member.
ErrorBody(errorCode, message, statusCode) ==
    <<"{", "success:false", ",",
      "error:{code:" \o errorCode \o ",message:" \o message
          \o ",status:" \o ToString(statusCode) \o "}",
      "}">>

\* ---------------------------------------------------------------- streaming
\* The response body is a sequence of JSON tokens; the k-th row that the
\* driver delivers is one object, RowToken(k).
RowToken(k) == "row" \o ToString(k)
RowTokenSet == {RowToken(k) : k \in 1..MaxRows}

\* Mutant: a chunk is put in front of what was written before.
M_Write_Prepend(r, chunk) ==
    IF r.writableEnded
    THEN [r EXCEPT !.lateWrites = @ + 1]
    ELSE [r EXCEPT !.body = chunk \o @]

\* res.write(chunk): a stream that was ended takes no more bytes.
Write(r, chunk) ==
    IF r.writableEnded
    THEN [r EXCEPT !.lateWrites = @ + 1]
    ELSE [r EXCEPT !.body = @ \o chunk]

\* res.end()
End(r) == [r EXCEPT !.writableEnded = TRUE, !.endCalls = @ + 1]

\* JSON.stringify(createMetadata(success, errorMessage, result)),
\* utils.js createMetadata: error and result are spread in when truthy; a
\* null errorMessage is the empty string here.
StringifyMetadata(success, errorMessage, hasResult) ==
    <<"{", IF success THEN "success:true" ELSE "success:false">>
    \o (IF errorMessage # "" THEN <<",", "error:" \o errorMessage>> ELSE <<>>)
    \o (IF hasResult THEN <<",", "result:object">> ELSE <<>>)
    \o <<"}">>

M_ArrayCloser_Nothing(state) == <<>>

\* apiController.js:151-155, the bytes that close the data array.
ArrayCloser(state) ==
    IF state.recordsetStarted THEN <<"]">>
    ELSE IF state.jsonStructureStarted /\ ~state.dataStarted THEN <<"[", "]">>
    ELSE <<>>

\* createSafeEndJSON (apiController.js:148-173): res.write does not throw on
\* an ended response, so the catch is not taken.
SafeEndJSON(r, state, success, errorMessage, hasResult) ==
    LET closer == ArrayCloser(state)
        r1 == IF closer = <<>> THEN r ELSE Write(r, closer)
        metadata == StringifyMetadata(success, errorMessage, hasResult)
        r2 == IF state.jsonStructureStarted
              THEN Write(r1, <<",">> \o Tail(metadata))
              ELSE Write(r1, metadata)
    IN  End(r2)

\* Mutant: the error middleware sends nothing.
M_ErrorMiddleware_Silent(r, err) == r

\* errorMiddleware hands the error to the next handler once the headers are
\* out (errorHandler.js:67-69).
DelegatesToNext(r) == r.headersSent

\* errorMiddleware (errorHandler.js:55-93) for the error that was passed to
\* next: res.status(code).json(body), with the status, code and message of a
\* DatabaseError, the statusCode of another error that has one, and 500,
\* INTERNAL_ERROR and the default message otherwise; nothing is written once
\* headers are out. A statusCode of 0 is an absent one.
ErrorMiddleware(r, err) ==
    IF DelegatesToNext(r)
    THEN r
    ELSE LET isDatabaseError == err.name = "DatabaseError"
             statusCode == IF isDatabaseError THEN err.statusCode
                           ELSE IF err.statusCode # 0 THEN err.statusCode
                           ELSE 500
             errorCode  == IF isDatabaseError THEN GetErrorCode(err.statusCode)
                           ELSE "INTERNAL_ERROR"
             message    == IF isDatabaseError THEN GetUserMessage(err.statusCode)
                           ELSE "An unexpected error occurred"
         IN  End([r EXCEPT !.headersSent = TRUE, !.status = ToString(statusCode),
                           !.body = ErrorBody(errorCode, message, statusCode)])

\* The codes and messages of the errors fed to the classifier: the codes of
\* both rules in both cases, the codes executeQuery resets on, others and
\* none; messages that mention connection, pool, timeout, several or none.
ThrownCodes ==
    {"", "ECONNREFUSED", "econnrefused", "ENOTFOUND", "ESOCKET", "esocket",
     "ETIMEOUT", "ETIMEDOUT", "etimedout", "ECONNRESET", "EHOSTUNREACH", "EREQUEST"}
ThrownMessages ==
    {"", "Connection lost", "pool is draining", "The POOL was closed",
     "Timeout: Request failed", "Connection timeout", "Invalid column name"}
ThrownErrors == [code : ThrownCodes, message : ThrownMessages]

\* The work function given to executeQuery rejects with err.
Throw(err) ==
    /\ errorPath.stage = "idle"
    /\ errorPath' = [errorPath EXCEPT !.stage = "thrown", !.thrown = err]
    /\ UNCHANGED <<poolVars, streamVars, serverVars>>

\* The catch of executeQuery (database.js:179-191) decides on the reset
\* and rethrows.
ExecuteQueryCatch ==
    /\ errorPath.stage = "thrown"
    /\ errorPath' = [errorPath EXCEPT !.stage = "caught",
                                      !.reset = ResetsOn(errorPath.thrown.code)]
    /\ UNCHANGED <<poolVars, streamVars, serverVars>>

\* The responses an error reaches the middleware with: an untouched one, and
\* one whose head and first bytes are out (res.headersSent).
SentResponse ==
    [FreshResponse EXCEPT !.headersSent = TRUE, !.status = "200", !.body = <<"{">>]
ArrivingResponses == {FreshResponse, SentResponse}

\* The catch of a controller wraps the error: next(new DatabaseError(error,
\* operation)).
NewDatabaseError(r) ==
    /\ errorPath.stage = "caught"
    /\ errorPath' = [errorPath EXCEPT !.stage = "wrapped",
                                      !.dbError = DatabaseError(errorPath.thrown),
                                      !.response = r]
    /\ UNCHANGED <<poolVars, streamVars, serverVars>>

\* An error that is no DatabaseError is passed to next as it is: the error
\* of a failed render (indexController.js:20-22), which has no statusCode,
\* or createError(404) (indexRouter.js:115-117).
PlainStatusCodes == {0, 404}
PlainError(statusCode) ==
    [name |-> "Error", message |-> "Not Found", originalError |-> NoError,
     statusCode |-> statusCode]
ForwardError(statusCode, r) ==
    /\ errorPath.stage = "idle"
    /\ errorPath' = [errorPath EXCEPT !.stage = "forwarded",
                                      !.dbError = PlainError(statusCode),
                                      !.response = r]
    /\ UNCHANGED <<poolVars, streamVars, serverVars>>

\* errorMiddleware answers the request, or leaves it to the next handler.
ErrorMiddlewareAnswers ==
    /\ errorPath.stage \in {"wrapped", "forwarded"}
    /\ errorPath' = [errorPath EXCEPT
                        !.stage = IF DelegatesToNext(errorPath.response)
                                  THEN "delegated" ELSE "answered",
                        !.response = ErrorMiddleware(errorPath.response, errorPath.dbError),
                        !.delegated = DelegatesToNext(errorPath.response)]
    /\ UNCHANGED <<poolVars, streamVars, serverVars>>

NextErrorPath ==
    \/ \E err \in ThrownErrors : Throw(err)
    \/ ExecuteQueryCatch
    \/ \E r \in ArrivingResponses : NewDatabaseError(r)
    \/ \E statusCode \in PlainStatusCodes, r \in ArrivingResponses :
           ForwardError(statusCode, r)
    \/ ErrorMiddlewareAnswers

SpecErrorPath == Init /\ [][NextErrorPath]_vars

\* Errors that the driver emits on a streaming request: a lost connection,
\* a failed statement, and one that carries no message.
StreamErrors ==
    {[code |-> "ESOCKET", message |-> "Connection lost - socket hang up"],
     [code |-> "EREQUEST", message |-> "Invalid object name TestRecords"],
     [code |-> "ECANCEL", message |-> ""]}

\* What await getConnectionPool() rejects with in a controller
\* (database.js:108).
AcquireError == [code |-> "", message |-> ERR_UNAVAILABLE]

\* What res.writeHead throws for a header it does not accept.
HeaderError == [code |-> "ERR_INVALID_CHAR", message |-> "Invalid character in header content"]

\* safeJSONStringify({ error: "Row processing failed" }), apiController.js:410
RowErrorToken == "rowError"

\* Mutant: markCompleted leaves the timer running.
M_ClearedTimer_Keeps(timer) == timer

\* clearTimeout(queryTimeout) of markCompleted (apiController.js:67-69)
ClearedTimer(timer) == IF timer = "armed" THEN "cleared" ELSE timer

\* markCompleted (apiController.js:65-70)
MarkCompleted ==
    /\ requestCompleted' = TRUE
    /\ queryTimeout' = ClearedTimer(queryTimeout)

\* Mutant: the close listener cancels whatever the state of the session.
M_CancelsOnClose_Always(completed) == TRUE

\* apiController.js:78-81: the close listener cancels unless the session
\* is marked completed.
CancelsOnClose(completed) == ~completed

\* request.cancel()
Cancel(rq) == [rq EXCEPT !.cancelCalls = @ + 1]

\* Mutant: no query timeout is set up.
M_TimerAfterSetup_None == "none"

\* setupTimeout (apiController.js:102-109, called at 455 and 611): the
\* timer is running when the query is issued.
TimerAfterSetup == "armed"

\* streamRecords up to request.query (apiController.js:330-372, 455-471);
\* poolOk is whether await getConnectionPool() returned a pool.
StreamRecords(poolOk) ==
    /\ handler = "idle"
    /\ IF poolOk
       THEN /\ handler' = "streaming"
            /\ queryTimeout' = TimerAfterSetup
            /\ request' = [request EXCEPT !.phase = "start"]
            /\ UNCHANGED <<res, nextCalls>>
       ELSE /\ handler' = "failed"
            /\ nextCalls' = nextCalls + 1
            /\ res' = ErrorMiddleware(res, DatabaseError(AcquireError))
            /\ UNCHANGED <<queryTimeout, request>>
    /\ UNCHANGED <<streamingState, requestCompleted, reqClosed>>
    /\ UNCHANGED poolVars
    /\ UNCHANGED peer
    /\ UNCHANGED errorVars
    /\ UNCHANGED serverVars

\* The ways the setup of the response can fail on the recordset event:
\* res.writeHead throws, or res.write of the prefix throws.
SetupFaults == {"none", "writeHead", "write"}

\* "recordset" listener (apiController.js:375-388); writeHead throws when
\* the headers are already out.  The catch reports to next when no headers
\* were sent and does nothing else.
OnRecordset(fault) ==
    /\ request.phase = "start"
    /\ request' = [request EXCEPT !.phase = "rows"]
    /\ IF res.headersSent
       THEN UNCHANGED <<res, streamingState, nextCalls>>
       ELSE IF fault = "writeHead"
       THEN /\ nextCalls' = nextCalls + 1
            /\ res' = ErrorMiddleware(res, DatabaseError(HeaderError))
            /\ UNCHANGED streamingState
       ELSE IF fault = "write"
       THEN /\ res' = [res EXCEPT !.headersSent = TRUE, !.status = "200"]
            /\ UNCHANGED <<streamingState, nextCalls>>
       ELSE /\ res' = Write([res EXCEPT !.headersSent = TRUE, !.status = "200"],
                            <<"{", "data:", "[">>)
            /\ streamingState' = [streamingState EXCEPT
                                     !.jsonStructureStarted = TRUE,
                                     !.recordsetStarted = TRUE]
            /\ UNCHANGED nextCalls
    /\ UNCHANGED <<handler, requestCompleted, queryTimeout, reqClosed>>
    /\ UNCHANGED poolVars
    /\ UNCHANGED peer
    /\ UNCHANGED errorVars
    /\ UNCHANGED serverVars

\* The ways the processing of a row can fail: JSON.stringify throws inside
\* safeJSONStringify, or the res.write of the serialized row throws.
RowFaults == {"none", "stringify", "write"}

\* safeJSONStringify (utils.js:22-33) of the k-th row: the fallback
\* object when JSON.stringify throws.
SafeJSONStringify(k, stringifyThrows) ==
    IF stringifyThrows THEN "rowFallback" ELSE RowToken(k)

\* What a data array can hold.
ElementTokens == RowTokenSet \cup {"rowFallback", RowErrorToken}

\* "row" listener (apiController.js:396-412).  With fault "write" the
\* res.write of the serialized row throws, after the comma was written; the
\* catch then writes its own comma and the placeholder.
OnRow(fault) ==
    /\ request.phase = "rows"
    /\ request.rows < MaxRows
    /\ request' = [request EXCEPT !.rows = @ + 1]
    /\ LET r1 == IF ~streamingState.isFirstRow THEN Write(res, <<",">>) ELSE res
           r2 == IF ~streamingState.isFirstRow THEN Write(r1, <<",">>) ELSE r1
       IN  IF fault = "write"
           THEN /\ res' = Write(r2, <<RowErrorToken>>)
                /\ streamingState' = [streamingState EXCEPT !.isFirstRow = FALSE]
           ELSE /\ res' = Write(r1, <<SafeJSONStringify(request.rows + 1,
                                                        fault = "stringify")>>)
                /\ streamingState' = [streamingState EXCEPT !.isFirstRow = FALSE,
                                                            !.dataStarted = TRUE]
    /\ UNCHANGED <<handler, requestCompleted, queryTimeout, reqClosed, nextCalls>>
    /\ UNCHANGED poolVars
    /\ UNCHANGED peer
    /\ UNCHANGED errorVars
    /\ UNCHANGED serverVars

\* "error" listener (apiController.js:419-431).  The driver may emit error
\* more than once, before or after the recordset.
OnError(err) ==
    /\ request.phase \in {"start", "rows", "failed"}
    /\ request.errors < MaxErrors
    /\ request' = [request EXCEPT !.errors = @ + 1,
                                  !.phase = IF @ = "start" THEN "failed" ELSE @]
    /\ MarkCompleted
    /\ IF res.headersSent
       THEN /\ res' = SafeEndJSON(res, streamingState, FALSE,
                                   IF err.message # "" THEN err.message
                                   ELSE "Database streaming error",
                                   FALSE)
            /\ UNCHANGED nextCalls
       ELSE /\ nextCalls' = nextCalls + 1
            /\ res' = ErrorMiddleware(res, DatabaseError(err))
    /\ UNCHANGED <<handler, streamingState, reqClosed>>
    /\ UNCHANGED poolVars
    /\ UNCHANGED peer
    /\ UNCHANGED errorVars
    /\ UNCHANGED serverVars

\* "done" listener (apiController.js:438-448).  The driver emits done last,
\* after the rows of a successful query or after the error of a failed or
\* cancelled one.
OnDone ==
    /\ request.phase \in {"rows", "failed"}
    /\ request.cancelCalls > 0 => request.errors > 0
    /\ request' = [request EXCEPT !.phase = "done"]
    /\ MarkCompleted
    /\ res' = SafeEndJSON(res, streamingState, TRUE, "", TRUE)
    /\ UNCHANGED <<handler, streamingState, reqClosed, nextCalls>>
    /\ UNCHANGED poolVars
    /\ UNCHANGED peer
    /\ UNCHANGED errorVars
    /\ UNCHANGED serverVars

\* req "close" listener (apiController.js:77-88)
OnReqClose ==
    /\ handler = "streaming"
    /\ ~reqClosed
    /\ reqClosed' = TRUE
    /\ request' = IF CancelsOnClose(requestCompleted) THEN Cancel(request) ELSE request
    /\ UNCHANGED <<handler, streamingState, requestCompleted, queryTimeout, res,
                   nextCalls>>
    /\ UNCHANGED poolVars
    /\ UNCHANGED peer
    /\ UNCHANGED errorVars
    /\ UNCHANGED serverVars

\* The timer of setupTimeout fires (apiController.js:103-109, 455-464).
OnTimeout ==
    /\ queryTimeout = "armed"
    /\ queryTimeout' = "fired"
    /\ IF requestCompleted
       THEN UNCHANGED <<request, res>>
       ELSE /\ request' = Cancel(request)
            /\ res' = IF res.headersSent /\ ~res.writableEnded
                      THEN SafeEndJSON(res, streamingState, FALSE, "Query timeout", FALSE)
                      ELSE res
    /\ UNCHANGED <<handler, streamingState, requestCompleted, reqClosed, nextCalls>>
    /\ UNCHANGED poolVars
    /\ UNCHANGED peer
    /\ UNCHANGED errorVars
    /\ UNCHANGED serverVars

NextStream ==
    \/ \E poolOk \in BOOLEAN : StreamRecords(poolOk)
    \/ OnRecordset("none")
    \/ OnRow("none")
    \/ \E err \in StreamErrors : OnError(err)
    \/ OnDone
    \/ OnReqClose
    \/ OnTimeout

SpecStream == Init /\ [][NextStream]_vars

\* The session whose listeners run.
RunningSession ==
    [handler |-> handler, streamingState |-> streamingState,
     requestCompleted |-> requestCompleted, queryTimeout |-> queryTimeout,
     request |-> request, reqClosed |-> reqClosed, res |-> res,
     nextCalls |-> nextCalls]

\* Mutant: streamingState is one object for all calls of streamRecords.
M_StreamingStateOf_Shared(own, running) == running.streamingState

\* apiController.js:337-342: streamingState is a const of the call of
\* streamRecords, so the listeners of a session see the object of their own
\* call, whichever session ran before them.
StreamingStateOf(own, running) == own.streamingState

\* The event loop turns to an event of the other session: its listeners run
\* on their own closure, and the session that ran keeps what it had.
SwitchSession ==
    /\ handler' = peer.handler
    /\ streamingState' = StreamingStateOf(peer, RunningSession)
    /\ requestCompleted' = peer.requestCompleted
    /\ queryTimeout' = peer.queryTimeout
    /\ request' = peer.request
    /\ reqClosed' = peer.reqClosed
    /\ res' = peer.res
    /\ nextCalls' = peer.nextCalls
    /\ peer' = RunningSession
    /\ UNCHANGED poolVars
    /\ UNCHANGED errorVars
    /\ UNCHANGED serverVars

\* Two streaming requests on the shared pool, their events interleaved in
\* every order: recordset, rows, a lost connection, done, client disconnect
\* and timeout of each.
ConcurrentError == [code |-> "ESOCKET", message |-> "Connection lost - socket hang up"]
NextConcurrent ==
    \/ StreamRecords(TRUE)
    \/ OnRecordset("none")
    \/ OnRow("none")
    \/ OnError(ConcurrentError)
    \/ OnDone
    \/ OnReqClose
    \/ OnTimeout
    \/ SwitchSession

SpecConcurrent == Init /\ [][NextConcurrent]_vars

\* The streaming session where the processing of a row may fail.
NextStreamRowFaults ==
    \/ \E poolOk \in BOOLEAN : StreamRecords(poolOk)
    \/ OnRecordset("none")
    \/ \E fault \in RowFaults : OnRow(fault)
    \/ \E err \in StreamErrors : OnError(err)
    \/ OnDone
    \/ OnReqClose
    \/ OnTimeout

SpecStreamRowFaults == Init /\ [][NextStreamRowFaults]_vars

\* The streaming session where the setup of the response may fail.
NextStreamSetupFaults ==
    \/ \E poolOk \in BOOLEAN : StreamRecords(poolOk)
    \/ \E fault \in SetupFaults : OnRecordset(fault)
    \/ OnRow("none")
    \/ \E err \in StreamErrors : OnError(err)
    \/ OnDone
    \/ OnReqClose
    \/ OnTimeout

SpecStreamSetupFaults == Init /\ [][NextStreamSetupFaults]_vars

\* The driver reports the end of a request that was cancelled.
DriverReportsCancel ==
    request.cancelCalls > 0 /\ ((\E err \in StreamErrors : OnError(err)) \/ OnDone)

\* The streaming session with its timing assumptions: a timer that is
\* running fires, and a cancelled request emits error or done.  A query
\* that was not cancelled may run for ever.
SpecStreamLive ==
    /\ Init
    /\ [][NextStream]_vars
    /\ WF_vars(OnTimeout)
    /\ WF_vars(DriverReportsCancel)

\* ------------------------------------------- streamRecords_FOR_JSON_PATH
\* The JSON text that SELECT ... FOR JSON PATH produces for k rows; the
\* server sends it cut into fragments, one per "row" event.  An empty result
\* has no text and no "row" event.
RECURSIVE JsonPathElements(_)
JsonPathElements(k) ==
    IF k = 0 THEN <<>>
    ELSE IF k = 1 THEN <<RowToken(1)>>
    ELSE JsonPathElements(k - 1) \o <<",", RowToken(k)>>

JsonPathText(k) == IF k = 0 THEN <<>> ELSE <<"[">> \o JsonPathElements(k) \o <<"]">>

\* The fragments of the text of k rows: one token each.
JsonPathFragment(k, n) == <<JsonPathText(k)[n]>>

\* apiController.js:507-511
InitialPathStreamingState ==
    [jsonStructureStarted |-> FALSE, dataStarted |-> FALSE, recordsetStarted |-> FALSE]

\* streamRecords_FOR_JSON_PATH up to request.query (apiController.js:500-626);
\* k is the number of rows the query selects.
StreamRecordsForJsonPath(poolOk, k) ==
    /\ handler = "idle"
    /\ streamingState' = InitialPathStreamingState
    /\ IF poolOk
       THEN /\ handler' = "streaming"
            /\ queryTimeout' = TimerAfterSetup
            /\ request' = [request EXCEPT !.phase = "start",
                                          !.total = Len(JsonPathText(k))]
            /\ UNCHANGED <<res, nextCalls>>
       ELSE /\ handler' = "failed"
            /\ nextCalls' = nextCalls + 1
            /\ res' = ErrorMiddleware(res, DatabaseError(AcquireError))
            /\ UNCHANGED <<queryTimeout, request>>
    /\ UNCHANGED <<requestCompleted, reqClosed>>
    /\ UNCHANGED poolVars
    /\ UNCHANGED peer
    /\ UNCHANGED errorVars
    /\ UNCHANGED serverVars

\* "recordset" listener (apiController.js:541-553)
OnRecordsetForJsonPath ==
    /\ request.phase = "start"
    /\ request' = [request EXCEPT !.phase = "rows"]
    /\ IF res.headersSent
       THEN UNCHANGED <<res, streamingState>>
       ELSE /\ res' = Write([res EXCEPT !.headersSent = TRUE, !.status = "200"],
                            <<"{", "data:">>)
            /\ streamingState' = [streamingState EXCEPT !.jsonStructureStarted = TRUE]
    /\ UNCHANGED <<handler, requestCompleted, queryTimeout, reqClosed, nextCalls>>
    /\ UNCHANGED poolVars
    /\ UNCHANGED peer
    /\ UNCHANGED errorVars
    /\ UNCHANGED serverVars

\* "row" listener (apiController.js:561-572): the fragment is written as it
\* came.
OnRowForJsonPath ==
    /\ request.phase = "rows"
    /\ request.rows < request.total
    /\ request' = [request EXCEPT !.rows = @ + 1]
    /\ streamingState' = [streamingState EXCEPT !.dataStarted = TRUE]
    /\ res' = Write(res, JsonPathFragment((request.total - 1) \div 2, request.rows + 1))
    /\ UNCHANGED <<handler, requestCompleted, queryTimeout, reqClosed, nextCalls>>
    /\ UNCHANGED poolVars
    /\ UNCHANGED peer
    /\ UNCHANGED errorVars
    /\ UNCHANGED serverVars

\* The driver ends a query that did not fail only after the whole text.
\* The "error", "done", "close" and timeout handlers have the code of
\* streamRecords (apiController.js:578-621).
NextStreamPath ==
    \/ \E poolOk \in BOOLEAN, k \in 0..MaxRows : StreamRecordsForJsonPath(poolOk, k)
    \/ OnRecordsetForJsonPath
    \/ OnRowForJsonPath
    \/ \E err \in StreamErrors : OnError(err)
    \/ (request.errors > 0 \/ request.rows = request.total) /\ OnDone
    \/ OnReqClose
    \/ OnTimeout

SpecStreamPath == Init /\ [][NextStreamPath]_vars

\* ------------------------------------------------------------------ server.js
\* The operation of the startup block: initializeDatabase -> initial_test.
StartupOp == 1

Alive == exit = NotExited

\* The HTTP server takes new connections.
Accepting == httpServer = "listening"

\* The requests whose response is not finished; request o does the database
\* work of operation o.
InFlight == {o \in Ops \ {StartupOp} : ops[o].pc \notin {"idle", "done"}}

\* Mutant: the database shutdown does not wait for the close callback.
M_AllConnectionsEnded_Always == TRUE

\* server.js:140: the database shutdown is the callback of server.close,
\* which runs once every connection has ended.
AllConnectionsEnded == InFlight = {}

\* process.exit(code)
Exit(code, by) == exit' = [code |-> code, by |-> by]

\* database.js:301-305: whether the promise of gracefulShutdown(s) rejected.
\* The catch block logs and does not rethrow.
DatabaseShutdownThrew(s) == FALSE

\* The close callback's await of gracefulDatabaseShutdown has settled and its
\* continuation is queued.
ShutdownContinuationQueued ==
    awaitedShutdown # 0 /\ shuts[awaitedShutdown].pc = "done"

\* server.js:39-45, after "await initializeDatabase()" resolved
ServerListen ==
    /\ Alive
    /\ startup = "init"
    /\ ops[StartupOp] = DoneOp(NoErr)
    /\ startup' = "done"
    /\ httpServer' = "listening"
    /\ UNCHANGED <<serverShuttingDown, forceExitTimer, awaitedShutdown, exit>>
    /\ UNCHANGED <<poolVars, streamVars, errorVars>>

\* server.js:46-51, "await initializeDatabase()" rejected
StartupFails ==
    /\ Alive
    /\ startup = "init"
    /\ ops[StartupOp].pc = "done"
    /\ ops[StartupOp].err # NoErr
    /\ startup' = "done"
    /\ Exit("1", "startup")
    /\ UNCHANGED <<httpServer, serverShuttingDown, forceExitTimer, awaitedShutdown>>
    /\ UNCHANGED <<poolVars, streamVars, errorVars>>

\* Mutant: the signal handler sets no force-exit timer.
M_ForceExitTimerSet_None == "none"

\* server.js:133-136: setTimeout(..., 40000) at the first signal.
ForceExitTimerSet == "armed"

\* SIGINT or SIGTERM: gracefulShutdown of server.js:123-140, up to the
\* return of server.close(callback).
Signal ==
    /\ Alive
    /\ NoMicrotasks
    /\ ~ShutdownContinuationQueued
    /\ IF serverShuttingDown
       THEN UNCHANGED <<serverShuttingDown, forceExitTimer, httpServer>>
       ELSE /\ serverShuttingDown' = TRUE
            /\ forceExitTimer' = ForceExitTimerSet
            /\ httpServer' = "closing"
    /\ UNCHANGED <<startup, awaitedShutdown, exit>>
    /\ UNCHANGED <<poolVars, streamVars, errorVars>>

\* The callback of server.close, server.js:140-147: all connections have
\* ended; it calls gracefulDatabaseShutdown(30000) and awaits it.
OnServerClosed(s) ==
    /\ Alive
    /\ httpServer = "closing"
    /\ AllConnectionsEnded
    /\ httpServer' = "closed"
    /\ awaitedShutdown' = s
    /\ GracefulShutdownCall(s)
    /\ UNCHANGED <<serverShuttingDown, forceExitTimer, startup, exit>>

\* server.js:147-160, after the await of gracefulDatabaseShutdown
AfterDatabaseShutdown ==
    /\ Alive
    /\ ShutdownContinuationQueued
    /\ awaitedShutdown' = 0
    /\ IF DatabaseShutdownThrew(awaitedShutdown)
       THEN /\ Exit("1", "poolError")
            /\ UNCHANGED forceExitTimer
       ELSE /\ forceExitTimer' = IF forceExitTimer = "armed" THEN "cleared"
                                 ELSE forceExitTimer
            /\ Exit("0", "graceful")
    /\ UNCHANGED <<httpServer, serverShuttingDown, startup>>
    /\ UNCHANGED <<poolVars, streamVars, errorVars>>

\* The force-exit timer fires, server.js:133-136.
ForceExitTimerFires ==
    /\ Alive
    /\ NoMicrotasks
    /\ ~ShutdownContinuationQueued
    /\ forceExitTimer = "armed"
    /\ forceExitTimer' = "fired"
    /\ Exit("1", "deadline")
    /\ UNCHANGED <<httpServer, serverShuttingDown, startup, awaitedShutdown>>
    /\ UNCHANGED <<poolVars, streamVars, errorVars>>

\* The process: the startup operation, requests taken while the server
\* accepts connections, signals, and the shutdown sequence.
NextServer ==
    \/ \E o \in Ops : Alive /\ (o = StartupOp \/ Accepting) /\ GetConnectionPool(o)
    \/ \E i \in Inits, outcome \in {"ok", "ELOGIN"} : Alive /\ InitSettles(i, outcome)
    \/ \E o \in Ops, wrapped \in BOOLEAN : Alive /\ Resume(o, wrapped)
    \/ \E o \in Ops, outcome \in {"ok", "EREQUEST"}, wrapped \in BOOLEAN :
           Alive /\ QuerySettles(o, outcome, wrapped)
    \/ ServerListen
    \/ StartupFails
    \/ Signal
    \/ \E s \in ShutdownCalls : OnServerClosed(s)
    \/ \E s \in ShutdownCalls, outcome \in DrainOutcomes :
           Alive /\ ShutdownRaceSettles(s, outcome)
    \/ AfterDatabaseShutdown
    \/ ForceExitTimerFires

SpecServer == Init /\ [][NextServer]_vars

\* The event loop runs what is due: the continuations of settled awaits, the
\* continuation of the close callback, and a timer that has expired. The
\* database and the clients owe nothing: a connect, a query or a connection
\* may hang for ever.
SpecServerLive ==
    /\ Init
    /\ [][NextServer]_vars
    /\ WF_vars(\E o \in Ops, wrapped \in BOOLEAN : Alive /\ Resume(o, wrapped))
    /\ WF_vars(AfterDatabaseShutdown)
    /\ WF_vars(ForceExitTimerFires)

Next ==
    \/ \E o \in Ops : GetConnectionPool(o)
    \/ \E i \in Inits, outcome \in {"ok"} \cup ConnectErrCodes : InitSettles(i, outcome)
    \/ \E o \in Ops, wrapped \in BOOLEAN : Resume(o, wrapped)
    \/ \E o \in Ops, outcome \in {"ok"} \cup QueryErrCodes, wrapped \in BOOLEAN :
           QuerySettles(o, outcome, wrapped)
    \/ \E o \in Ops, closeOk \in BOOLEAN : CloseConnectionPoolSettles(o, closeOk)
    \/ \E r \in Resets, p \in Inits, code \in PoolEventCodes : PoolErrorEvent(r, p, code)
    \/ \E r \in Resets : CloseAndResetSettles(r)
    \/ \E s \in ShutdownCalls : GracefulShutdown(s)
    \/ \E s \in ShutdownCalls, outcome \in {"closed", "timeout", "closeFailed"} :
           ShutdownRaceSettles(s, outcome)
    \/ FixConfig

Spec == Init /\ [][Next]_vars

\* The drain timer of gracefulShutdown fires (setTimeout, database.js:288-293).
DrainTimerFires == \E s \in ShutdownCalls : ShutdownRaceSettles(s, "timeout")

\* Callers and shutdown calls.  pool.close() may resolve, reject or never
\* settle; a timer that was set fires, and a queued continuation runs.
NextDrain ==
    \/ \E o \in Ops : GetConnectionPool(o)
    \/ \E i \in Inits, outcome \in {"ok", "ELOGIN"} : InitSettles(i, outcome)
    \/ \E o \in Ops, wrapped \in BOOLEAN : Resume(o, wrapped)
    \/ \E o \in Ops, outcome \in {"ok", "EREQUEST"}, wrapped \in BOOLEAN :
           QuerySettles(o, outcome, wrapped)
    \/ \E s \in ShutdownCalls : GracefulShutdown(s)
    \/ \E s \in ShutdownCalls, outcome \in {"closed", "closeFailed"} :
           ShutdownRaceSettles(s, outcome)
    \/ DrainTimerFires

SpecDrain ==
    /\ Init
    /\ [][NextDrain]_vars
    /\ WF_vars(\E o \in Ops, wrapped \in BOOLEAN : Resume(o, wrapped))
    /\ WF_vars(DrainTimerFires)

\* The error codes of the failures fed to executeQuery, and of the "error"
\* events fed to the pool's listener: the fatal ones and others.
ExecuteQueryErrCodes == {"ESOCKET", "ECONNRESET", "ETIMEDOUT", "EHOSTUNREACH", "EREQUEST"}
ListenerEventCodes == {"ESOCKET", "ECONNRESET", "ETIMEDOUT", "EOTHER"}

\* Operations run through executeQuery, failing with any of the codes, and
\* the resets executeQuery triggers.
NextExecuteQuery ==
    \/ \E o \in Ops : GetConnectionPool(o)
    \/ \E i \in Inits, outcome \in {"ok"} \cup ConnectErrCodes : InitSettles(i, outcome)
    \/ \E o \in Ops : Resume(o, TRUE)
    \/ \E o \in Ops, outcome \in {"ok"} \cup ExecuteQueryErrCodes :
           QuerySettles(o, outcome, TRUE)
    \/ \E o \in Ops, closeOk \in BOOLEAN : CloseConnectionPoolSettles(o, closeOk)

SpecExecuteQuery == Init /\ [][NextExecuteQuery]_vars

\* Callers whose work succeeds, "error" events of the pools with any of the
\* codes, and the resets the listener triggers.
NextPoolEvents ==
    \/ \E o \in Ops : GetConnectionPool(o)
    \/ \E i \in Inits, outcome \in {"ok", "ELOGIN"} : InitSettles(i, outcome)
    \/ \E o \in Ops, wrapped \in BOOLEAN : Resume(o, wrapped)
    \/ \E o \in Ops, wrapped \in BOOLEAN : QuerySettles(o, "ok", wrapped)
    \/ \E r \in Resets, p \in Inits, code \in ListenerEventCodes :
           PoolErrorEvent(r, p, code)
    \/ \E r \in Resets : CloseAndResetSettles(r)

SpecPoolEvents == Init /\ [][NextPoolEvents]_vars

\* Both kinds of reset, with no shutdown.
NextRecovery ==
    \/ \E o \in Ops : GetConnectionPool(o)
    \/ \E i \in Inits, outcome \in {"ok", "ELOGIN"} : InitSettles(i, outcome)
    \/ \E o \in Ops : Resume(o, TRUE)
    \/ \E o \in Ops, outcome \in {"ok", "ESOCKET"} : QuerySettles(o, outcome, TRUE)
    \/ \E o \in Ops, closeOk \in BOOLEAN : CloseConnectionPoolSettles(o, closeOk)
    \/ \E r \in Resets, p \in Inits, code \in PoolEventCodes : PoolErrorEvent(r, p, code)
    \/ \E r \in Resets : CloseAndResetSettles(r)

SpecRecovery == Init /\ [][NextRecovery]_vars

\* Mutant: the health check answers true whatever happened.
M_IsPoolHealthy_AlwaysTrue(op) == TRUE

\* isPoolHealthy (database.js:199-207) for the initial_test that ended as
\* op: true after the try, false from the catch.
IsPoolHealthy(op) == op.err = NoErr

\* Health checks, each the executeQuery of initial_test, while the pool is
\* built, fails to connect, fails a query, is reset and is shut down.
NextHealth ==
    \/ \E o \in Ops : GetConnectionPool(o)
    \/ \E i \in Inits, outcome \in {"ok", "ELOGIN"} : InitSettles(i, outcome)
    \/ \E o \in Ops : Resume(o, TRUE)
    \/ \E o \in Ops, outcome \in {"ok", "ESOCKET"} : QuerySettles(o, outcome, TRUE)
    \/ \E o \in Ops, closeOk \in BOOLEAN : CloseConnectionPoolSettles(o, closeOk)
    \/ \E s \in ShutdownCalls : GracefulShutdown(s)
    \/ \E s \in ShutdownCalls, outcome \in DrainOutcomes : ShutdownRaceSettles(s, outcome)

SpecHealth == Init /\ [][NextHealth]_vars

\* The arguments of initial_test: a value with its typeof and its text in a
\* template string; an absent argument takes the default, 1
\* (database.js:215).
Number(value, text) == [type |-> "number", value |-> value, text |-> text]
Undefined == [type |-> "undefined", value |-> 0, text |-> "undefined"]
DefaultRecQy(arg) == IF arg.type = "undefined" THEN Number(1, "1") ELSE arg
RecQyArgs ==
    {Undefined, Number(0, "0"), Number(1, "1"), Number(-2, "-2"),
     [type |-> "string", value |-> 1, text |-> "1"],
     [type |-> "object", value |-> 0, text |-> "null"]}

\* Mutant: initial_test accepts every argument.
M_ValidRecQy_Always(recQy) == TRUE

\* database.js:217: the argument passes unless
\* typeof recQy !== 'number' || recQy < 0.
ValidRecQy(recQy) == ~(recQy.type # "number" \/ recQy.value < 0)

\* database.js:218
ERR_INVALID_RECQY(recQy) ==
    "Invalid recQy parameter: must be a non-negative number, got " \o recQy.text

\* initial_test(arg) called by operation o, database.js:215-229: the
\* validation throws, or executeQuery runs the work function up to its await
\* of getConnectionPool.
InitialTest(o, arg) ==
    LET recQy == DefaultRecQy(arg)
    IN  IF ValidRecQy(recQy)
        THEN GetConnectionPool(o)
        ELSE /\ NoMicrotasks
             /\ ops[o].pc = "idle"
             /\ \A o2 \in Ops : o2 < o => ops[o2].pc # "idle"
             /\ ops' = [ops EXCEPT ![o] = DoneOp(ERR_INVALID_RECQY(recQy))]
             /\ UNCHANGED <<isShuttingDown, pool, poolConnect, envOk, inits, nInits,
                            resets, shuts>>
             /\ UNCHANGED streamVars
             /\ UNCHANGED errorVars
             /\ UNCHANGED serverVars

\* testBadRecord, database.js:238-251, run by operation o: initial_test(-1),
\* whose error the catch rethrows.
BadRecordArg == Number(-1, "-1")
TestBadRecord(o) == InitialTest(o, BadRecordArg)

\* getBadTest, apiController.js:218-235, once the testBadRecord of operation
\* op has settled: 200 and success:true in the catch, 500 and success:false
\* when nothing was thrown.
GetBadTest(op) ==
    IF op.err # NoErr
    THEN [status |-> "200", success |-> TRUE]
    ELSE [status |-> "500", success |-> FALSE]

\* Calls of initial_test with every kind of argument and failure tests,
\* while the pool is built, fails to connect, fails a query, is reset and is
\* shut down.
NextValidation ==
    \/ \E o \in Ops, arg \in RecQyArgs : InitialTest(o, arg)
    \/ \E o \in Ops : TestBadRecord(o)
    \/ \E i \in Inits, outcome \in {"ok", "ELOGIN"} : InitSettles(i, outcome)
    \/ \E o \in Ops : Resume(o, TRUE)
    \/ \E o \in Ops, outcome \in {"ok", "ESOCKET"} : QuerySettles(o, outcome, TRUE)
    \/ \E o \in Ops, closeOk \in BOOLEAN : CloseConnectionPoolSettles(o, closeOk)
    \/ \E s \in ShutdownCalls : GracefulShutdown(s)
    \/ \E s \in ShutdownCalls, outcome \in DrainOutcomes : ShutdownRaceSettles(s, outcome)

SpecValidation == Init /\ [][NextValidation]_vars

\* Contention alone: callers, connects and queries, with no reset, no pool
\* error event and no shutdown (the driver's errors are the non-fatal ones).
NextContention ==
    \/ \E o \in Ops : GetConnectionPool(o)
    \/ \E i \in Inits, outcome \in {"ok", "ELOGIN"} : InitSettles(i, outcome)
    \/ \E o \in Ops, wrapped \in BOOLEAN : Resume(o, wrapped)
    \/ \E o \in Ops, outcome \in {"ok", "EREQUEST"}, wrapped \in BOOLEAN :
           QuerySettles(o, outcome, wrapped)
    \/ FixConfig

SpecContention == Init /\ [][NextContention]_vars

\* ------------------------------------------------------------------ claims

Pending == {i \in Inits : inits[i].st = "pending"}

\* C1: single initialization under contention.  With no reset, pool error
\* event or shutdown, an initialization that is in flight or has succeeded is
\* the only connect sequence: it is the last one started, no other is
\* pending, every waiting caller awaits it, and every caller that was given
\* a Pool was given its Pool.
C1_SingleInitialization ==
    \A i \in Inits :
        inits[i].st \in {"pending", "resolved"} =>
            /\ nInits = i
            /\ Pending \subseteq {i}
            /\ poolConnect = i /\ pool = i
            /\ \A o \in Ops :
                  /\ ops[o].pc \in {"await", "ready"} => ops[o].h = i
                  /\ ops[o].pc = "query" => ops[o].res = i /\ inits[i].st = "resolved"

\* C1 witness: all callers were given the Pool of the one initialization.
C1_Witness ==
    /\ nInits = 1
    /\ \A o \in Ops : ops[o].pc = "query" /\ ops[o].res = 1

\* A JSON reader over the tokens of a body: one step of the grammar
\*   object = "{" member ("," member)* "}",  member = "data:" array | scalar member,
\*   array  = "[" [ row ("," row)* ] "]".
ScalarMembers == {"success:true", "success:false", "result:object"}
IsErrorMember(t) == Len(t) > 6 /\ SubSeq(t, 1, 6) = "error:"

JSONStep(st, t) ==
    CASE st = "start" /\ t = "{" -> "member"
      [] st = "member" /\ t = "data:" -> "dataValue"
      [] st = "member" /\ (t \in ScalarMembers \/ IsErrorMember(t)) -> "afterMember"
      [] st = "dataValue" /\ t = "[" -> "elemOrEnd"
      [] st = "elemOrEnd" /\ t \in ElementTokens -> "afterElem"
      [] st = "elemOrEnd" /\ t = "]" -> "afterMember"
      [] st = "afterElem" /\ t = "," -> "elem"
      [] st = "afterElem" /\ t = "]" -> "afterMember"
      [] st = "elem" /\ t \in ElementTokens -> "afterElem"
      [] st = "afterMember" /\ t = "," -> "member"
      [] st = "afterMember" /\ t = "}" -> "end"
      [] OTHER -> "reject"

RECURSIVE JSONRead(_, _)
JSONRead(st, toks) ==
    IF toks = <<>> THEN st ELSE JSONRead(JSONStep(st, Head(toks)), Tail(toks))

IsJSONDocument(toks) == JSONRead("start", toks) = "end"
Members(toks) == {toks[k] : k \in 1..Len(toks)}
HasDataArray(toks) == "data:" \in Members(toks)
HasBooleanSuccess(toks) == Members(toks) \cap {"success:true", "success:false"} # {}

\* C2: once the controller has started the streamed body, the bytes the
\* response holds when it is ended are one well-formed JSON document whose
\* top-level object has a data array and a boolean success, whatever the
\* order of recordset, row, error, done, client disconnect and timeout.
C2_StreamedBodyWellFormed ==
    (res.writableEnded /\ streamingState.jsonStructureStarted)
        => /\ IsJSONDocument(res.body)
           /\ HasDataArray(res.body)
           /\ HasBooleanSuccess(res.body)

\* The body was started, rows were written, and the response was then closed
\* out by the timeout before the driver reported the cancellation.
C2_Witness ==
    /\ res.writableEnded
    /\ streamingState.dataStarted
    /\ request.rows = MaxRows
    /\ queryTimeout = "fired"
    /\ request.errors > 0

\* C3: the response is ended exactly once and no write is attempted on it
\* after it was ended, also when the driver delivers further events after
\* the close-out.
C3_NoDoubleResponse ==
    /\ res.endCalls <= 1
    /\ res.lateWrites = 0

\* C4 (as claimed): reset-and-rebuild.  The connect sequence that rebuilds
\* the pool stays the one current initialization until it settles or a
\* further reset or shutdown takes a step: nothing else drops its handle, so
\* that no second connect sequence is started for the same reset.
C4_RebuildStaysCurrent ==
    [][\A i \in Inits :
         (inits[i].st = "pending" /\ poolConnect = i /\ inits'[i].st = "pending")
            => \/ poolConnect' = i
               \/ resets' # resets
               \/ shuts' # shuts
               \/ \E o \in Ops : ops[o].pc \in {"closing", "query", "ready"}
                                 /\ ops'[o].pc = "done" /\ ResetsOn(ops'[o].err)]_vars

\* C5 (as claimed): a configuration failure is not cached, the handle never
\* holds the promise of an initialization that failed on the configuration.
C5_ConfigFailureNotCached ==
    poolConnect # 0 => inits[poolConnect].err # ERR_CONFIG

\* C6 (as claimed): getConnectionPool never returns a Pool on which close()
\* has been invoked.
C6_ClosedPoolNeverReturned ==
    [][\A o \in Ops :
         (ops[o].pc # "query" /\ ops'[o].pc = "query")
            => inits[ops'[o].res].closeCalls = 0]_vars

\* C7 (as claimed): every Pool returned by getConnectionPool has completed
\* its connect().
C7_NeverHalfBuilt ==
    [][\A o \in Ops :
         (ops[o].pc # "query" /\ ops'[o].pc = "query")
            => inits[ops'[o].res].st = "resolved"]_vars

\* C8 (as claimed): single flight under any interleaving, no second connect
\* sequence is started while one is in flight.
C8_SingleFlight == Cardinality(Pending) <= 1

\* C9: shutdown gate.  Once isShuttingDown is set it stays set, no
\* initialization is started, and every getConnectionPool call that starts
\* ends at once with the shutting-down error.
C9_ShutdownGate ==
    [][isShuttingDown =>
         /\ isShuttingDown'
         /\ nInits' = nInits
         /\ \A o \in Ops : (ops[o].pc = "idle" /\ ops'[o].pc # "idle")
                              => ops'[o] = DoneOp(ERR_SHUTDOWN)]_vars

\* C9 witness: a call made during shutdown has failed with the
\* shutting-down error.
C9_Witness ==
    /\ isShuttingDown
    /\ \E o \in Ops : ops[o] = DoneOp(ERR_SHUTDOWN)

\* C10: idempotent shutdown.  Of all gracefulShutdown calls at most one
\* goes past the guard and at most one invokes close(); every call that
\* finds the shutdown in progress has returned at once without touching the
\* pool.
C10_IdempotentShutdown ==
    /\ Cardinality({s \in ShutdownCalls : shuts[s].cp # 0}) <= 1
    /\ Cardinality({s \in ShutdownCalls : shuts[s].pc # "idle" /\ ~shuts[s].skipped}) <= 1
    /\ \A s \in ShutdownCalls :
          /\ shuts[s].skipped => shuts[s].pc = "done" /\ shuts[s].cp = 0
          /\ shuts[s].pc = "race" => shuts[s].cp # 0 /\ inits[shuts[s].cp].closeCalls >= 1

\* C10 witness: the second call has returned while the first awaits the
\* close it invoked.
C10_Witness ==
    \E s, t \in ShutdownCalls :
        /\ shuts[s].pc = "race" /\ shuts[s].cp # 0
        /\ shuts[t].skipped /\ shuts[t].pc = "done"

\* C11: bounded drain.  A gracefulShutdown call that awaits the race of
\* close() against the drain timer always returns, whatever close() does
\* (resolve, reject, never settle); when the timer settles the race the call
\* clears pool and handle; and whichever way the race settles the call ends
\* normally with the handle cleared.
C11_BoundedDrain ==
    /\ \A s \in ShutdownCalls : (shuts[s].pc = "race") ~> (shuts[s].pc = "done")
    /\ [][/\ DrainTimerFires => (pool' = 0 /\ poolConnect' = 0)
          /\ \A s \in ShutdownCalls :
                (shuts[s].pc = "race" /\ shuts'[s].pc # "race")
                    => (shuts'[s].pc = "done" /\ poolConnect' = 0)]_vars

\* C11 witness: a call that invoked close() on a connected Pool has
\* returned, and pool and handle are cleared.
C11_Witness ==
    \E s \in ShutdownCalls :
        /\ shuts[s].pc = "done" /\ shuts[s].cp # 0
        /\ inits[shuts[s].cp].st = "resolved"
        /\ pool = 0 /\ poolConnect = 0

\* C12: shutdown ordering.  The database gracefulShutdown is called only by
\* the close callback, after the signal made the server stop accepting and
\* when no response is in flight; while the server is closing no new request
\* is taken; close() is invoked on a Pool only when no response is in
\* flight; and the process exits with code 0 only after the awaited
\* database shutdown has returned.
C12_ShutdownOrdering ==
    [][/\ \A s \in ShutdownCalls :
            (shuts[s].pc = "idle" /\ shuts'[s].pc # "idle")
                => /\ serverShuttingDown
                   /\ httpServer = "closing" /\ httpServer' = "closed"
                   /\ InFlight = {}
       /\ \A q \in Inits :
            inits'[q].closeCalls > inits[q].closeCalls => InFlight = {}
       /\ httpServer = "closing" => InFlight' \subseteq InFlight
       /\ (exit.code = "none" /\ exit'.code = "0")
            => /\ httpServer # "closing"
               /\ serverShuttingDown
               /\ awaitedShutdown # 0
               /\ shuts[awaitedShutdown].pc = "done"]_vars

\* C12 witness: a request was in flight when the signal came, it finished,
\* the Pool was closed by the shutdown, and the process exited with code 0.
C12_Witness ==
    /\ exit = [code |-> "0", by |-> "graceful"]
    /\ \E o \in Ops \ {StartupOp} : ops[o] = DoneOp(NoErr)
    /\ \E s \in ShutdownCalls :
          shuts[s].cp # 0 /\ inits[shuts[s].cp].closeCalls = 1
    /\ pool = 0

\* close() of the Pool rejected during the shutdown: the call has returned
\* and left the Pool it tried to close in the pool variable.
PoolCloseErrored ==
    \E s \in ShutdownCalls :
        shuts[s].pc = "done" /\ shuts[s].cp # 0 /\ pool = shuts[s].cp

\* C13 (as claimed): shutdown exit codes.  An exit at the hard deadline has
\* code 1; an exit at the end of the shutdown sequence has code 1 if closing
\* the Pool errored and code 0 otherwise.
C13_ShutdownExitCodes ==
    /\ exit.by = "deadline" => exit.code = "1"
    /\ exit.by \in {"graceful", "poolError"}
          => exit.code = (IF PoolCloseErrored THEN "1" ELSE "0")

\* C14 (as claimed): in the pre-formatted mode, once the body was started,
\* the bytes the response holds when it is ended are one well-formed JSON
\* document with a data array and a boolean success, whether the close-out
\* is done, a mid-stream error or a timeout, after all, some or none of the
\* fragments.
C14_PreformattedBodyWellFormed ==
    (res.writableEnded /\ streamingState.jsonStructureStarted)
        => /\ IsJSONDocument(res.body)
           /\ HasBooleanSuccess(res.body)
           /\ HasDataArray(res.body)

\* C15: no hang.  Every streaming session that issued its query eventually
\* ends its response or hands an error to the framework error path, given
\* that the timer fires and a cancelled request emits error or done.
C15_NoHang ==
    (handler = "streaming") ~> (res.writableEnded \/ nextCalls > 0)

\* C15 witness: the timeout came before the headers, the request was
\* cancelled, and the driver's error went to the framework error path.
C15_Witness ==
    /\ queryTimeout = "fired"
    /\ request.cancelCalls > 0
    /\ ~streamingState.jsonStructureStarted
    /\ nextCalls = 1
    /\ res.writableEnded

IsRowToken(t) == t \in RowTokenSet

\* The rows of a body, in the order in which they stand in it.
BodyRows == SelectSeq(res.body, IsRowToken)

\* C16: row-order preservation.  The rows in the body are the rows 1..K the
\* driver delivered, in that order, each once; while the response is open K
\* is the number of rows delivered so far, and a row that came after the
\* close-out is not in the body.
C16_RowOrderPreserved ==
    /\ BodyRows = [k \in 1..Len(BodyRows) |-> RowToken(k)]
    /\ Len(BodyRows) <= request.rows
    /\ ~res.writableEnded => Len(BodyRows) = request.rows

\* C16 witness: all rows were delivered and written, and the stream was
\* closed by done.
C16_Witness ==
    /\ request.phase = "done"
    /\ request.errors = 0
    /\ res.writableEnded
    /\ Len(BodyRows) = MaxRows
    /\ MaxRows >= 2

\* C17: executeQuery is transparent.  When the work function succeeds the
\* operation ends with its result and no error; when it fails with an error
\* the operation ends with that same error, at once or after the reset it
\* awaits, whether close() of the Pool succeeded or failed.
C17_ExecuteQueryTransparent ==
    [][\A o \in Ops :
          /\ \A outcome \in {"ok"} \cup ExecuteQueryErrCodes :
                QuerySettles(o, outcome, TRUE)
                    => IF outcome = "ok"
                       THEN ops'[o] = DoneOp(NoErr)
                       ELSE ops'[o].pc \in {"closing", "done"} /\ ops'[o].err = outcome
          /\ (ops[o].pc = "ready" /\ ops'[o].pc \in {"closing", "done"}
                 /\ inits[ops[o].h].st = "rejected")
                => ops'[o].err = inits[ops[o].h].err
          /\ (ops[o].pc = "closing" /\ ops'[o].pc # "closing")
                => ops'[o] = DoneOp(ops[o].err)]_vars

\* C17 witness: an operation has rethrown ESOCKET after its reset failed to
\* close the Pool.
C17_Witness ==
    /\ \E o \in Ops : ops[o] = DoneOp("ESOCKET")
    /\ pool # 0 /\ poolConnect = 0
    /\ inits[pool].st = "resolved" /\ inits[pool].closeCalls >= 1

\* C18: executeQuery resets the pool exactly for the error codes ESOCKET,
\* ECONNRESET, ETIMEDOUT and EHOSTUNREACH.  For these, with a Pool present
\* close() is invoked on it and the operation has not ended before the reset
\* is over, and the reset has cleared the handle when the operation ends;
\* with no Pool the handle is cleared at once.  A failure with any other
\* error leaves pool, handle and Pools as they were.
C18_ResetIffFatalCode ==
    [][\A o \in Ops :
          /\ (ops[o].pc \in {"ready", "query"} /\ ops'[o].pc \in {"closing", "done"}
                 /\ ops'[o].err # NoErr)
                => IF ops'[o].err \in {"ESOCKET", "ECONNRESET", "ETIMEDOUT", "EHOSTUNREACH"}
                   THEN IF pool # 0
                        THEN /\ ops'[o].pc = "closing"
                             /\ inits'[pool].closeCalls = inits[pool].closeCalls + 1
                        ELSE /\ ops'[o].pc = "done"
                             /\ pool' = 0 /\ poolConnect' = 0
                   ELSE /\ ops'[o].pc = "done"
                        /\ UNCHANGED <<pool, poolConnect, inits>>
          /\ (ops[o].pc = "closing" /\ ops'[o].pc = "done") => poolConnect' = 0]_vars

\* C18 witness: one operation failed with EREQUEST and the Pool stayed; a
\* later one failed with EHOSTUNREACH and the Pool was closed and cleared.
C18_Witness ==
    /\ \E o \in Ops : ops[o] = DoneOp("EREQUEST")
    /\ \E o \in Ops : ops[o] = DoneOp("EHOSTUNREACH")
    /\ nInits = 1 /\ inits[1].closeCalls = 1
    /\ pool = 0 /\ poolConnect = 0

\* C19: fatal-error detection.  An "error" event of the current Pool with
\* code ESOCKET or ECONNRESET invokes close() on it, and when that close has
\* settled pool and handle are cleared, so that the next getConnectionPool
\* starts an initialization; no caller takes part in these steps.  An event
\* with any other code leaves pool, handle and Pools unchanged.
C19_FatalEventResets ==
    [][/\ \A r \in Resets, code \in ListenerEventCodes :
            (pool # 0 /\ PoolErrorEvent(r, pool, code))
                => IF code \in {"ESOCKET", "ECONNRESET"}
                   THEN /\ resets'[r].pc = "closing"
                        /\ inits'[pool].closeCalls = inits[pool].closeCalls + 1
                   ELSE UNCHANGED <<pool, poolConnect, inits>>
       /\ \A r \in Resets :
            (resets[r].pc = "closing" /\ resets'[r].pc = "done")
                => pool' = 0 /\ poolConnect' = 0
       /\ resets' # resets => ops' = ops]_vars

\* C19 witness: the first Pool was closed by the listener's reset and the
\* next caller was given a second Pool.
C19_Witness ==
    /\ \E r \in Resets : resets[r].pc = "done"
    /\ inits[1].closeCalls = 1
    /\ pool = 2 /\ poolConnect = 2
    /\ \E o \in Ops : ops[o].pc = "query" /\ ops[o].res = 2

\* C20 (as claimed): reset is best-effort and idempotent.  A reset that
\* completes, through closeAndResetPool or through resetConnectionPool,
\* raises nothing of its own and leaves the handle cleared; a reset with no
\* Pool only clears the handle; and a reset that starts where an earlier
\* reset left the handle cleared changes nothing: it closes no Pool and
\* leaves pool and handle as the first reset left them.
C20_ResetIdempotent ==
    [][/\ \A r \in Resets :
            /\ (resets[r].pc = "closing" /\ resets'[r].pc = "done")
                  => poolConnect' = 0
            /\ (resets[r].pc = "idle" /\ resets'[r].pc # "idle" /\ poolConnect = 0)
                  => inits' = inits /\ pool' = pool /\ poolConnect' = 0
       /\ \A o \in Ops :
            /\ (ops[o].pc = "closing" /\ ops'[o].pc = "done")
                  => poolConnect' = 0 /\ ops'[o].err = ops[o].err
            /\ (ops[o].pc \in {"ready", "query"} /\ ops'[o].pc \in {"closing", "done"}
                   /\ ops'[o].err = "ESOCKET")
                  => /\ pool = 0 => (inits' = inits /\ pool' = 0 /\ poolConnect' = 0)
                     /\ poolConnect = 0
                           => (inits' = inits /\ pool' = pool /\ poolConnect' = 0)]_vars

\* The error of the path has been classified.
Classified == errorPath.stage \in {"wrapped", "answered"}

\* C21: classifier, connection rule.  An error is given status 503 and code
\* DATABASE_UNAVAILABLE exactly when its code is ECONNREFUSED, ENOTFOUND or
\* ESOCKET in any letter case, or its message mentions "connection" or
\* "pool" in any letter case.
C21_ConnectionRule ==
    Classified =>
        LET e == errorPath.thrown
            connection ==
                \/ ToUpperCase(e.code) \in {"ECONNREFUSED", "ENOTFOUND", "ESOCKET"}
                \/ Includes(ToLowerCase(e.message), "connection")
                \/ Includes(ToLowerCase(e.message), "pool")
        IN  /\ (errorPath.dbError.statusCode = 503) <=> connection
            /\ errorPath.stage = "answered" =>
                  /\ (errorPath.response.status = "503") <=> connection
                  /\ Includes(errorPath.response.body[4], "code:DATABASE_UNAVAILABLE")
                        <=> connection

\* C21 witness: an error whose message names the pool in capitals and whose
\* code is of no rule was answered with 503.
C21_Witness ==
    /\ errorPath.stage = "answered"
    /\ errorPath.thrown = [code |-> "EREQUEST", message |-> "The POOL was closed"]
    /\ errorPath.response.status = "503"

\* C22 (as claimed): classifier, timeout rule.  An error whose code is
\* ETIMEOUT or ETIMEDOUT or whose message mentions "timeout" is given status
\* 504 and code DATABASE_TIMEOUT, whatever else its code and message are.
C22_TimeoutRule ==
    Classified =>
        LET e == errorPath.thrown
            timeout ==
                \/ ToUpperCase(e.code) \in {"ETIMEOUT", "ETIMEDOUT"}
                \/ Includes(ToLowerCase(e.message), "timeout")
        IN  timeout =>
              /\ errorPath.dbError.statusCode = 504
              /\ GetErrorCode(errorPath.dbError.statusCode) = "DATABASE_TIMEOUT"

\* C24 (as claimed): reset follows the taxonomy.  An error raised through
\* executeQuery that the classifier gives 503 has reset the pool, and one
\* that it gives 504 has not.
C24_ResetFollowsTaxonomy ==
    Classified =>
        /\ errorPath.dbError.statusCode = 503 => errorPath.reset
        /\ errorPath.dbError.statusCode = 504 => ~errorPath.reset

\* The body holds the message or the code of an error that the driver
\* emitted.
LeaksDriverText(body) ==
    \E i \in 1..Len(body), e \in StreamErrors :
        \/ e.message # "" /\ Includes(body[i], e.message)
        \/ Includes(body[i], e.code)

\* C23 (as claimed): no leakage of driver text.  No body sent to the client,
\* by the error middleware or by the streaming close-out after the headers
\* were sent, holds the message or the code of the driver's error.
C23_NoDriverTextLeak == ~LeaksDriverText(res.body)

\* C25: isPoolHealthy never throws and answers with a boolean: true when
\* the operation got a pool from getConnectionPool and its test query
\* succeeded, false when it ended in any other way: refused during
\* shutdown, failed configuration or connect, no pool after the await, or a
\* failed query, with or without a reset.
C25_HealthCheckTotal ==
    [][\A o \in Ops :
          (ops[o].pc # "done" /\ ops'[o].pc = "done")
              => /\ IsPoolHealthy(ops'[o]) \in BOOLEAN
                 /\ IsPoolHealthy(ops'[o])
                       <=> (ops[o].pc = "query" /\ ops[o].res # 0
                            /\ QuerySettles(o, "ok", TRUE))]_vars

\* C25 witness: one health check answered true; later ones answered false,
\* one refused by the shutdown and one after a failed query and a reset.
C25_Witness ==
    /\ \E o \in Ops : ops[o].pc = "done" /\ IsPoolHealthy(ops[o])
    /\ \E o \in Ops : ops[o] = DoneOp(ERR_SHUTDOWN) /\ ~IsPoolHealthy(ops[o])
    /\ \E o \in Ops : ops[o] = DoneOp("ESOCKET") /\ ~IsPoolHealthy(ops[o])

\* body continues old: what was sent stays in front.
Extends(body, old) == Len(body) >= Len(old) /\ SubSeq(body, 1, Len(old)) = old

\* C26: stream timeout.  Once the session is marked completed its timer is
\* no longer running, so the callback neither cancels nor writes.  When the
\* timer fires on a session that is not completed, the driver request is
\* cancelled; if the headers were sent and the response is not ended, the
\* body is closed out as for a query error: the array is closed,
\* success:false and the error "Query timeout" are appended, the object is
\* closed and the response ended; otherwise the response is left alone.
C26_StreamTimeout ==
    /\ [](requestCompleted => queryTimeout # "armed")
    /\ [][(queryTimeout = "armed" /\ queryTimeout' = "fired")
            => /\ request'.cancelCalls = request.cancelCalls + 1
               /\ IF res.headersSent /\ ~res.writableEnded
                  THEN /\ res'.writableEnded
                       /\ res'.status = res.status
                       /\ Extends(res'.body, res.body)
                       /\ IsJSONDocument(res'.body)
                       /\ HasDataArray(res'.body)
                       /\ "success:false" \in Members(res'.body)
                       /\ "error:Query timeout" \in Members(res'.body)
                  ELSE res' = res]_vars

\* C26 witness: the timer fired between two rows and closed the body.
C26_Witness ==
    /\ queryTimeout = "fired"
    /\ request.cancelCalls = 1
    /\ request.rows = 1
    /\ res.writableEnded
    /\ "error:Query timeout" \in Members(res.body)

\* C27: client disconnect.  The close notification of the request calls
\* cancel() on the driver request exactly when the session is not marked
\* completed, before the headers as well as while streaming, and does
\* nothing else: what cancel() throws is swallowed, the response and the
\* session's state are left as they are.
C27_ClientDisconnect ==
    [][(~reqClosed /\ reqClosed')
          => /\ request'.cancelCalls
                   = request.cancelCalls + (IF requestCompleted THEN 0 ELSE 1)
             /\ UNCHANGED <<handler, streamingState, requestCompleted, queryTimeout,
                            res, nextCalls>>]_vars

\* C27 witness: the client went away while rows were streamed and the
\* request was cancelled.
C27_Witness ==
    /\ reqClosed
    /\ request.cancelCalls = 1
    /\ ~requestCompleted
    /\ request.rows >= 1
    /\ res.headersSent /\ ~res.writableEnded

\* C28: query-error routing.  An error event that finds the headers sent
\* and the response open closes the array, appends success:false and the
\* error, closes the object and ends the response under the status already
\* sent, without calling next.  An error event that finds no headers sent
\* calls next once, and the response is the plain error body of the
\* classified error under its classified status.
C28_QueryErrorRouting ==
    [][\A err \in StreamErrors :
          OnError(err)
              => IF res.headersSent
                 THEN /\ nextCalls' = nextCalls
                      /\ ~res.writableEnded
                            => /\ res'.writableEnded
                               /\ res'.status = "200"
                               /\ Extends(res'.body, res.body)
                               /\ IsJSONDocument(res'.body)
                               /\ HasDataArray(res'.body)
                               /\ "success:false" \in Members(res'.body)
                               /\ \E t \in Members(res'.body) : IsErrorMember(t)
                 ELSE LET statusCode == CategorizeError(err)
                      IN  /\ nextCalls' = nextCalls + 1
                          /\ res'.writableEnded
                          /\ res'.status = ToString(statusCode)
                          /\ res'.body = <<"{", "success:false", ",",
                                           "error:{code:" \o GetErrorCode(statusCode)
                                               \o ",message:" \o GetUserMessage(statusCode)
                                               \o ",status:" \o ToString(statusCode) \o "}",
                                           "}">>]_vars

\* C28 witness: the query failed before the recordset with a lost
\* connection and the error path answered with 503.
C28_Witness ==
    /\ handler = "streaming"
    /\ request.errors = 1
    /\ nextCalls = 1
    /\ ~streamingState.jsonStructureStarted
    /\ res.status = "503"
    /\ res.writableEnded

\* C29 (as claimed): a row failure is recovered in place.  When writing a
\* row fails, the placeholder is written in its place, next is not called
\* for it, and the array stays well-formed: no two commas follow each
\* other, and the body that was started is one JSON document when ended.
C29_RowFailureRecovered ==
    /\ \A i \in 1..(Len(res.body) - 1) : ~(res.body[i] = "," /\ res.body[i + 1] = ",")
    /\ (res.writableEnded /\ streamingState.jsonStructureStarted)
          => IsJSONDocument(res.body)

\* The headers went out with status 200 and the prefix was not written.
SetupFailedAfterHeaders ==
    res.headersSent /\ res.status = "200" /\ ~streamingState.jsonStructureStarted

\* C30 (as claimed): header/prefix setup failure.  When the setup fails on
\* the recordset event before any header was sent, next is called with the
\* error; when it fails after the headers were sent, the session stops and
\* no later event writes to the response.
C30_SetupFailureStops ==
    [][/\ (~res.headersSent /\ OnRecordset("writeHead")) => nextCalls' = nextCalls + 1
       /\ SetupFailedAfterHeaders => res'.body = res.body]_vars

\* C31: pool unavailable after waiting.  A caller whose awaited
\* initialization resolved and who finds no pool reference fails with the
\* error "Connection pool is not available"; no caller is ever given an
\* absent pool.
C31_UnavailableAfterWait ==
    [][\A o \in Ops :
          (ops[o].pc = "ready" /\ ops'[o].pc # "ready")
              => /\ ops'[o].pc = "query" => ops'[o].res # 0
                 /\ (inits[ops[o].h].st = "resolved" /\ pool = 0)
                       => /\ ops'[o].pc = "done"
                          /\ ops'[o].err
                                = "Connection pool is not available. Please try again."]_vars

\* C31 witness: a caller failed with the unavailable error.
C31_Witness ==
    \E o \in Ops :
        ops[o] = DoneOp("Connection pool is not available. Please try again.")

\* C36 (as claimed): a stale pool cannot reset the current one.  A fatal
\* "error" event of a Pool that is not the current one invokes no close()
\* on the current Pool and leaves pool and handle as they are.
C36_StalePoolHarmless ==
    [][\A r \in Resets, p \in Inits, code \in {"ESOCKET", "ECONNRESET"} :
          (pool # 0 /\ p # pool /\ PoolErrorEvent(r, p, code))
              => /\ inits'[pool].closeCalls = inits[pool].closeCalls
                 /\ pool' = pool /\ poolConnect' = poolConnect]_vars

\* Nothing is in progress: no caller, initialization, reset or shutdown is
\* between two of its steps.
AtRest ==
    /\ \A o \in Ops : ops[o].pc \in {"idle", "done"}
    /\ \A i \in Inits : inits[i].st # "pending"
    /\ \A r \in Resets : resets[r].pc \in {"idle", "done"}
    /\ \A s \in ShutdownCalls : shuts[s].pc \in {"idle", "done"}

\* C37 (as claimed): no orphaned pools.  Once nothing is in progress, every
\* Pool that was constructed and connected is the current pool or has had
\* close() invoked on it.
C37_NoOrphanedPools ==
    AtRest =>
        \A i \in Inits :
            (inits[i].built /\ inits[i].st = "resolved")
                => (pool = i \/ inits[i].closeCalls >= 1)

\* C38 (as claimed): pool and handle agree at rest.  When nothing is in
\* progress, pool and handle are both empty, or both set with the handle
\* resolved to that Pool.
C38_PoolAndHandleAgree ==
    AtRest =>
        \/ pool = 0 /\ poolConnect = 0
        \/ pool # 0 /\ poolConnect = pool /\ inits[pool].st = "resolved"

\* C39 (as claimed): close() is invoked at most once on any Pool.
C39_CloseAtMostOnce == \A i \in Inits : inits[i].closeCalls <= 1

\* C40 (as claimed): completion tracks the response.  Whenever the
\* controller has ended the streamed response the session is marked
\* completed, and cancel() is invoked at most once in a session.
C40_CompletionTracksResponse ==
    /\ (res.writableEnded /\ streamingState.jsonStructureStarted) => requestCompleted
    /\ request.cancelCalls <= 1

\* C32: the error middleware answers every error with the body
\* {success:false, error:{code, message, status}} and an HTTP status equal to
\* the status in the body; when the headers were already sent it writes
\* nothing and hands the error to the next handler.
C32_UniformErrorResponse ==
    [][(errorPath.stage \in {"wrapped", "forwarded"} /\ errorPath'.stage # errorPath.stage)
          => IF errorPath.response.headersSent
             THEN /\ errorPath'.response = errorPath.response
                  /\ errorPath'.delegated
             ELSE LET r == errorPath'.response
                  IN  /\ ~errorPath'.delegated
                      /\ r.writableEnded /\ r.endCalls = 1
                      /\ r.status \in {"500", "503", "504", "404"}
                      /\ Len(r.body) = 5
                      /\ r.body[1] = "{" /\ r.body[2] = "success:false"
                      /\ r.body[3] = "," /\ r.body[5] = "}"
                      /\ \E code \in {"DATABASE_UNAVAILABLE", "DATABASE_TIMEOUT",
                                       "DATABASE_ERROR", "INTERNAL_ERROR"},
                            message \in {GetUserMessage(503), GetUserMessage(504),
                                         GetUserMessage(500),
                                         "An unexpected error occurred"} :
                             r.body[4] = "error:{code:" \o code \o ",message:" \o message
                                             \o ",status:" \o r.status \o "}"]_vars

C32_Witness ==
    /\ errorPath.stage = "answered"
    /\ errorPath.dbError = PlainError(404)
    /\ errorPath.response.status = "404"
    /\ errorPath.response.body[4] =
           "error:{code:INTERNAL_ERROR,message:An unexpected error occurred,status:404}"

\* How the process ended after a signal: the graceful sequence, or the
\* force-exit timer.
ExitedByShutdown ==
    \/ exit = [code |-> "0", by |-> "graceful"] /\ forceExitTimer = "cleared"
    \/ exit = [code |-> "1", by |-> "deadline"] /\ forceExitTimer = "fired"

\* The startup block ended the process because initializeDatabase failed
\* (server.js:46-51); the force-exit timer was still running.
ExitedByStartup ==
    exit = [code |-> "1", by |-> "startup"] /\ forceExitTimer = "armed"

PoolState == <<pool, poolConnect, inits, nInits, resets, isShuttingDown>>

\* C35: initial_test called with an argument that is not a number or is
\* negative rejects with the validation error before executeQuery or
\* getConnectionPool runs: pool, handle, pools built, resets and shutdown flag
\* are unchanged and no other operation is affected; testBadRecord therefore
\* always throws, and GET /api/failure-test answers 200 with success:true in
\* every database state.
C35_ValidationOffPool ==
    [][/\ \A o \in Ops, arg \in RecQyArgs :
             ((arg.type \notin {"number", "undefined"} \/ arg.value < 0) /\ InitialTest(o, arg))
                 => /\ ops'[o].pc = "done"
                    /\ ops'[o].err = "Invalid recQy parameter: must be a non-negative number, got "
                                         \o arg.text
                    /\ \A o2 \in Ops \ {o} : ops'[o2] = ops[o2]
                    /\ UNCHANGED PoolState
       /\ \A o \in Ops :
             TestBadRecord(o)
                 => /\ ops'[o].pc = "done"
                    /\ ops'[o].err # NoErr
                    /\ GetBadTest(ops'[o]) = [status |-> "200", success |-> TRUE]
                    /\ \A o2 \in Ops \ {o} : ops'[o2] = ops[o2]
                    /\ UNCHANGED PoolState]_vars

C35_Witness ==
    \E o, o2 \in Ops :
        /\ ops[o] = DoneOp("Invalid recQy parameter: must be a non-negative number, got -1")
        /\ isShuttingDown
        /\ ops[o2].pc = "done" /\ ops[o2].err = ERR_SHUTDOWN

\* The body of a session whose streamed body was started and whose response
\* is ended is one JSON document with a data array and a boolean success.
ReturnsValidJSON(session) ==
    (session.res.writableEnded /\ session.streamingState.jsonStructureStarted)
        => /\ IsJSONDocument(session.res.body)
           /\ HasDataArray(session.res.body)
           /\ HasBooleanSuccess(session.res.body)

\* C33: of two streaming sessions whose events interleave on the shared
\* pool, each keeps its own framing, completion and timeout state: the events
\* of one leave the other's state and output as they were, a session resumes
\* with exactly what it had when its last listener returned, and each
\* returns valid JSON.
C33_SessionsIndependent ==
    /\ [](ReturnsValidJSON(RunningSession) /\ ReturnsValidJSON(peer))
    /\ [][IF SwitchSession
          THEN RunningSession' = peer /\ peer' = RunningSession
          ELSE peer' = peer]_vars

\* One session was closed out by its timeout after its first row while the
\* other, started before that, delivered all its rows and completed.
C33_Witness ==
    /\ peer.res.writableEnded /\ peer.queryTimeout = "fired"
    /\ peer.request.rows = 1
    /\ "success:false" \in Members(peer.res.body)
    /\ res.writableEnded /\ requestCompleted
    /\ request.rows = MaxRows
    /\ "success:true" \in Members(res.body)

====
